---- MODULE Spec2Model ----
(***************************************************************************)
(* Model of the SSE relay of amazon-mcp-local (src/src/server.ts, the      *)
(* current version of the file, lines 516-1157) together with the tool     *)
(* functions it awaits (src/src/amazon.ts, the session manager).           *)
(*                                                                         *)
(* One action is one run-to-completion turn of the Node event loop: a      *)
(* handler runs from the event that starts it to its first await that      *)
(* waits on real I/O (the browser), or to its end.                         *)
(***************************************************************************)
EXTENDS Integers, Sequences, FiniteSets, TLC

(***************************************************************************)
(* Bounds of the model.                                                    *)
(***************************************************************************)
MaxSessions == 2      \* stream-opens in one behaviour
MaxPings == 1         \* heartbeat frames written in one behaviour
MaxRequests == 1      \* bodies handled by POST /message in one behaviour
MaxCookies == 2       \* cookies the page holds
MaxTicks == 2         \* advances of the clock in one behaviour of the store
MaxCalls == 2         \* tool functions started in one behaviour of the process
MaxCallers == 3       \* calls of getBrowser in one behaviour of the browser module

(***************************************************************************)
(* JSON values that occur as the id of a message.                          *)
(***************************************************************************)
JNull == [t |-> "null", v |-> 0]
JNum(n) == [t |-> "num", v |-> n]
IdValues == {JNull, JNum(0), JNum(1)}

\* JavaScript truthiness of an id value, as used by `id || null`.
Truthy(j) == j.t = "num" /\ j.v # 0

\* `jsonrpcRequest?.id || null` (server.ts 896, 1079, 1095).
IdOrNull(msg) == IF msg.hasId /\ Truthy(msg.id) THEN msg.id ELSE JNull

(***************************************************************************)
(* Inbound messages: the parsed body of a POST /message.                   *)
(***************************************************************************)
Methods == {"initialize", "ping", "resources/list", "prompts/list",
            "tools/list", "tools/call", "bogus/method"}
DriverTools == {"search_amazon", "add_to_cart", "view_cart", "check_login"}
KnownTools == DriverTools \cup {"save_session"}
ToolNameValues == KnownTools \cup {"does_not_exist"}

NoName == "-"
Message(method, hasId, id, hasParams, name) ==
  [hasMethod |-> TRUE, method |-> method, hasId |-> hasId, id |-> id,
   hasParams |-> hasParams, name |-> name]
\* Every method as a request with id 1; tools/call here has no params.
PlainMessages == {Message(m, TRUE, JNum(1), FALSE, NoName) : m \in Methods}
\* tools/call with every tool name, as a request with id 1.
CallMessages == {Message("tools/call", TRUE, JNum(1), TRUE, n) : n \in ToolNameValues}
\* Every shape of the id: null, 0, 1.
IdMessages == {Message("tools/list", TRUE, id, FALSE, NoName) : id \in IdValues}
\* No id key at all.
Notifications ==
  {Message("tools/list", FALSE, JNull, FALSE, NoName),
   Message("tools/call", FALSE, JNull, TRUE, "check_login")}
\* Bodies with no method: the empty body {} and a body with only an id.
MalformedMessages ==
  [hasMethod : {FALSE}, method : {""}, hasId : BOOLEAN, id : {JNum(1)},
   hasParams : {FALSE}, name : {NoName}]
\* The body of an exchange whose handler reads none.
NoBody ==
  [hasMethod |-> FALSE, method |-> "", hasId |-> FALSE, id |-> JNull,
   hasParams |-> FALSE, name |-> NoName]
\* Every method with the id key present and null; tools/call names a tool.
NullIdMessages ==
  {Message(m, TRUE, JNull, m = "tools/call",
           IF m = "tools/call" THEN "check_login" ELSE NoName) : m \in Methods}
Messages ==
  PlainMessages \cup CallMessages \cup IdMessages \cup Notifications
    \cup MalformedMessages \cup NullIdMessages

(***************************************************************************)
(* Response envelopes, HTTP answers and stream frames.                     *)
(***************************************************************************)
NoPayload == [success |-> FALSE, message |-> "", error |-> ""]
NoResult == [kind |-> "absent", tools |-> <<>>, payload |-> NoPayload]
NoError == [code |-> 0, message |-> ""]

\* {jsonrpc:'2.0', id, result}
ResultEnvelope(id, result) ==
  [id |-> id, members |-> {"result"}, result |-> result, error |-> NoError]
\* (mutant) an error envelope that also has a result member.
ErrorEnvelopeWithResult(id, code, message) ==
  [id |-> id, members |-> {"result", "error"}, result |-> NoResult,
   error |-> [code |-> code, message |-> message]]

\* {jsonrpc:'2.0', id, error:{code, message}}
ErrorEnvelope(id, code, message) ==
  [id |-> id, members |-> {"error"}, result |-> NoResult,
   error |-> [code |-> code, message |-> message]]
NoEnvelope == [id |-> JNull, members |-> {}, result |-> NoResult, error |-> NoError]

\* res.status(202).end()
Accepted == [status |-> 202, code |-> 0, message |-> "", id |-> JNull]
\* res.status(s).json({jsonrpc:'2.0', error:{code, message}, id})
HttpError(status, code, message, id) ==
  [status |-> status, code |-> code, message |-> message, id |-> id]
NoHttp == [status |-> 0, code |-> 0, message |-> "", id |-> JNull]
\* res.status(401).json({error: 'Unauthorized'})
Unauthorized == [status |-> 401, code |-> 0, message |-> "Unauthorized", id |-> JNull]
\* res.json({status: 'ok', server: 'amazon-mcp-server'})
HealthOk == [status |-> 200, code |-> 0, message |-> "ok", id |-> JNull]

\* The frames a stream carries.
ConnectedFrame == [event |-> "comment", text |-> "connected", data |-> NoEnvelope]
EndpointFrame == [event |-> "endpoint", text |-> "/message", data |-> NoEnvelope]
PingFrame == [event |-> "comment", text |-> "ping", data |-> NoEnvelope]
\* (mutant) the endpoint frame written before the comment.
OpeningFramesSwapped == <<EndpointFrame, ConnectedFrame>>
\* What app.get('/sse') writes when it opens a stream.
OpeningFrames == <<ConnectedFrame, EndpointFrame>>

(***************************************************************************)
(* Credentials: the Authorization header and the token query parameter of  *)
(* a request.  NoToken stands for an absent (undefined) or empty value.    *)
(***************************************************************************)
NoToken == ""
Credential(scheme, header, query) ==
  [scheme |-> scheme, header |-> header, query |-> query]
Credentials ==
  {Credential("", NoToken, NoToken),          \* nothing presented
   Credential("Bearer ", "secret", NoToken),  \* the secret in the header
   Credential("", NoToken, "secret"),         \* the secret in the query
   Credential("Bearer ", "wrong", "secret"),  \* the header wins over the query
   Credential("", NoToken, "wrong")}
\* The credential that is accepted whether or not a secret is configured.
GoodCredential == Credential("Bearer ", "secret", NoToken)
\* What process.env.AUTH_TOKEN can be.
AuthTokenValues == {NoToken, "secret"}

\* req.headers.authorization?.replace(/^Bearer\s+/i, '')
headerToken(cred) == cred.header
\* headerToken || queryToken
providedToken(cred) ==
  IF headerToken(cred) # NoToken THEN headerToken(cred) ELSE cred.query

(***************************************************************************)
(* The tool functions the dispatcher awaits.  Each of the four functions   *)
(* of amazon.ts wraps its whole body, getPage() included, in try/catch     *)
(* and returns an OperationResult; it never throws.                        *)
(***************************************************************************)
FailureMessage(tool) ==
  CASE tool = "search_amazon" -> "Failed to search products"
    [] tool = "add_to_cart" -> "Failed to add item to cart"
    [] tool = "view_cart" -> "Failed to get cart contents"
    [] tool = "check_login" -> "Failed to check login status"
    [] OTHER -> ""

\* What the environment (browser, site) does to one tool invocation.
Outcomes == {"ok", "fails"}

\* The OperationResult of searchProducts, addToCart, getCart, checkLoginStatus.
OperationResult(tool, outcome) ==
  IF outcome = "ok"
    THEN [success |-> TRUE, message |-> "done", error |-> ""]
    ELSE [success |-> FALSE, message |-> FailureMessage(tool), error |-> "browser error"]

\* toolResult of the save_session case once getPage() has returned:
\* saveAmazonSession swallows its own failures.
SaveSessionResult ==
  [success |-> TRUE, message |-> "Amazon session saved successfully", error |-> ""]

(***************************************************************************)
(* The pure steps of app.post('/message').                                 *)
(***************************************************************************)
\* (mutant) no validation of the body, as in the first version of the handler.
ValidRequestAny(msg) == TRUE

\* if (!jsonrpcRequest || !jsonrpcRequest.method)
ValidRequest(msg) == msg.hasMethod

\* Array.from(activeConnections.values())[0]; 0 stands for undefined.
SelectConnection(conns) == IF conns = <<>> THEN 0 ELSE conns[1].res

\* (mutant) the first version of the test: !id && id !== 0.
isNotificationFalsy(msg) == ~(msg.hasId /\ (Truthy(msg.id) \/ msg.id = JNum(0)))

\* const isNotification = !('id' in jsonrpcRequest)
isNotification(msg) == ~msg.hasId

\* (mutant) the list of the first version with an entry lost.
ToolsListShort == <<"search_amazon", "add_to_cart", "view_cart">>

\* result.tools of the tools/list branch, by name.
ToolsList ==
  <<"search_amazon", "add_to_cart", "view_cart", "check_login", "save_session">>

InitializeResult == [kind |-> "descriptor", tools |-> <<>>, payload |-> NoPayload]
ToolsListResult == [kind |-> "tools", tools |-> ToolsList, payload |-> NoPayload]
\* result.content[0].text is JSON.stringify(toolResult).
ContentResult(toolResult) == [kind |-> "content", tools |-> <<>>, payload |-> toolResult]

\* The switch of the tools/call branch dispatches these names to a handler.
Dispatched(name) == name \in KnownTools

\* tools of the ListTools handler registered on mcpServer, by name.
SdkToolsList ==
  <<"search_amazon", "add_to_cart", "view_cart", "check_login", "save_session">>
\* The switch of the CallTool handler registered on mcpServer.
SdkDispatched(name) ==
  name \in {"search_amazon", "add_to_cart", "view_cart", "check_login", "save_session"}

\* The else-if chain: which branch a request with an id takes.
\*   "sync"  : the response is built without awaiting anything
\*   "await" : a tool function is awaited
\*   "throw" : jsonrpcRequest.params.name raises (params missing)
Branch(msg) ==
  IF msg.method = "tools/call"
    THEN IF ~msg.hasParams THEN "throw"
         ELSE IF Dispatched(msg.name) THEN "await" ELSE "sync"
    ELSE "sync"

\* The response of the branches that await nothing.
SyncResponse(msg) ==
  CASE msg.method = "initialize" -> ResultEnvelope(msg.id, InitializeResult)
    [] msg.method = "tools/list" -> ResultEnvelope(msg.id, ToolsListResult)
    [] msg.method = "tools/call" -> ErrorEnvelope(msg.id, -32603, "Unknown tool")
    [] OTHER -> ErrorEnvelope(msg.id, -32601, "Method not found")

\* The response of the tools/call branch when the awaited call settles.
\* Only save_session can raise inside the inner try: its getPage() is called
\* by the dispatcher itself.
ToolResponse(msg, outcome) ==
  IF msg.name = "save_session"
    THEN IF outcome = "ok"
           THEN ResultEnvelope(msg.id, ContentResult(SaveSessionResult))
           ELSE ErrorEnvelope(msg.id, -32603, "browser error")
    ELSE ResultEnvelope(msg.id, ContentResult(OperationResult(msg.name, outcome)))

\* (mutant) the first version: `data: ${JSON.stringify(data)}\n\n`, no event line.
sendSSEMessageUntagged(stream, data) ==
  Append(stream, [event |-> "", text |-> "json", data |-> data])

\* sendSSEMessage: `event: message\ndata: ${JSON.stringify(data)}\n\n`
sendSSEMessage(stream, data) ==
  Append(stream, [event |-> "message", text |-> "json", data |-> data])

(***************************************************************************)
(* The session manager: cookies, their expiry, the file.  Times are in     *)
(* seconds, as Date.now() / 1000.                                          *)
(***************************************************************************)
\* 365 * 24 * 60 * 60
OneYear == 365 * 24 * 60 * 60
\* The time at which a behaviour of the store starts.
StartTime == OneYear

\* The expires of a cookie: a number, or undefined.
Undefined == [t |-> "undefined", v |-> 0]
ExpiresValues ==
  {Undefined, JNum(0), JNum(-1),      \* no expiry: absent, zero, the session sentinel
   JNum(StartTime - 1),               \* already past when the behaviour starts
   JNum(StartTime + 1),               \* passes within the behaviour
   JNum(StartTime + 2 * OneYear)}     \* far ahead

Cookie(name, domain, expires) ==
  [name |-> name, domain |-> domain, expires |-> expires]
\* One cookie of the site per shape of expires, and a cookie of another site.
CookieValues ==
  {Cookie("session-id", ".amazon.com", Undefined),
   Cookie("session-token", ".amazon.com", JNum(0)),
   Cookie("ubid-main", ".amazon.com", JNum(-1)),
   Cookie("csm-hit", ".amazon.com", JNum(StartTime - 1)),
   Cookie("i18n-prefs", ".amazon.com", JNum(StartTime + 1)),
   Cookie("at-main", ".amazon.com", JNum(StartTime + 2 * OneYear)),
   Cookie("other", "example.com", JNum(-1))}

\* c.domain.includes('amazon'), on the domains above.
IncludesAmazon(domain) == domain = ".amazon.com"

\* cookie.expires && cookie.expires > 0
HasExpires(cookie) == cookie.expires.t = "num" /\ cookie.expires.v > 0

\* (mutant) the cookie written as the page gave it.
PersistentCookieAsIs(cookie, oneYearFromNow) == cookie

\* {...cookie, expires: cookie.expires && cookie.expires > 0 ? cookie.expires : oneYearFromNow}
PersistentCookie(cookie, oneYearFromNow) ==
  [cookie EXCEPT !.expires = IF HasExpires(cookie) THEN cookie.expires
                             ELSE JNum(oneYearFromNow)]

\* The array saveAmazonSession writes: the site's cookies, made persistent.
persistentCookies(cookies, time) ==
  LET amazonCookies == SelectSeq(cookies, LAMBDA c : IncludesAmazon(c.domain))
  IN  [k \in 1..Len(amazonCookies) |-> PersistentCookie(amazonCookies[k], time + OneYear)]

\* JSON.stringify of one value of expires: undefined leaves the key out.
StringifyExpires(e) == IF e.t = "num" THEN <<"number", e.v>> ELSE <<"absent", 0>>
\* JSON.parse of it.
ParseExpires(j) == IF j[1] = "number" THEN JNum(j[2]) ELSE Undefined
\* JSON.stringify(persistentCookies, null, 2)
Stringify(cookies) ==
  [k \in 1..Len(cookies) |->
     [name |-> cookies[k].name, domain |-> cookies[k].domain,
      expires |-> StringifyExpires(cookies[k].expires)]]
\* JSON.parse(cookiesData)
Parse(text) ==
  [k \in 1..Len(text) |->
     Cookie(text[k].name, text[k].domain, ParseExpires(text[k].expires))]
\* fs.existsSync(COOKIES_FILE) is false.
NoFile == [exists |-> FALSE, shape |-> "none", text |-> <<>>]
\* The file after fs.writeFileSync(COOKIES_FILE, text) has written all of text.
WrittenFile(text) == [exists |-> TRUE, shape |-> "array", text |-> text]
\* The file after a writeFileSync that opened (and so truncated) it and then
\* failed, or was killed, before the last byte: a prefix of the text.
CutFile == [exists |-> TRUE, shape |-> "cut", text |-> <<>>]
\* A file that holds something else than what saveAmazonSession writes:
\* "invalid" is not JSON, "object" is JSON but not an array.
ForeignShapes == {"invalid", "object"}
ForeignFile(shape) == [exists |-> TRUE, shape |-> shape, text |-> <<>>]
\* JSON.parse throws a SyntaxError on a text that is not JSON.
ParseThrows(f) == f.shape \in {"invalid", "cut"}
\* cookies.filter is not a function on a parsed value that is not an array.
FilterThrows(f) == f.shape = "object"
\* What saveAmazonSession can meet: page.cookies() rejects, writeFileSync
\* throws before touching the file, or it throws after truncating it.
SaveOutcomes == {"ok", "cookies fail", "write refused", "write cut"}

\* c.expires > now; a comparison with undefined is false.
NotExpired(c, time) == c.expires.t = "num" /\ c.expires.v > time

\* (mutant) every cookie of the file is kept.
validCookiesAll(cookies, time) == cookies

\* cookies.filter(c => c.expires > now)
validCookies(cookies, time) == SelectSeq(cookies, LAMBDA c : NotExpired(c, time))

(***************************************************************************)
(* State.                                                                  *)
(***************************************************************************)
VARIABLES
  AUTH_TOKEN,         \* process.env.AUTH_TOKEN, read once at start
  activeConnections,  \* the Map, as the sequence of its entries in insertion order
  opened,             \* number of streams opened so far; the streams are 1..opened
  sessionId,          \* the sessionId of each stream's handler; 0 before it is opened
  writable,           \* res.writable of each stream
  heartbeat,          \* streams whose setInterval timer is still set
  frames,             \* what has been written on each stream
  pending,            \* handlers of POST /message suspended at their await
  http,               \* the HTTP exchange completed by the latest turn, if any
  trigger,            \* the teardown trigger that ran in the latest turn, if any
  submitted,          \* bodies handled by POST /message so far
  pings,              \* heartbeat frames written so far, on all streams
  now,                \* Date.now() / 1000
  ticks,              \* advances of the clock so far
  jar,                \* what page.cookies() returns
  file,               \* the content of COOKIES_FILE
  savedAt,            \* the time of the latest save that wrote the file
  applied,            \* the cookies the latest restore gave to page.setCookie
  restored,           \* what the latest restore returned
  saveResult,         \* how the save called in the latest turn ended, if one was
  startup,            \* the position of the app.listen callback
  shutdown,           \* the position of the SIGINT handler
  browserInstance,    \* browserInstance of browser.ts
  autoSave,           \* the setInterval timer of the periodic save is set
  calls,              \* the tool functions in flight, each with its position
  invoked,            \* tool functions started so far
  page,               \* the tool function whose navigation the shared page last began
  done,               \* the tool function that returned in the latest turn, if any
  callers,            \* the calls of getBrowser so far, each with its position
  launches,           \* calls of puppeteer.launch so far; launch n makes browser n
  instance            \* the browser browserInstance refers to; 0 when it is null

serverVars ==
  <<activeConnections, opened, sessionId, writable, heartbeat, frames, pending,
    http, trigger, submitted, pings>>
storeVars == <<now, ticks, jar, file, savedAt, applied, restored, saveResult>>
processVars ==
  <<startup, shutdown, browserInstance, autoSave, calls, invoked, page, done>>
browserVars == <<callers, launches, instance>>
vars == <<AUTH_TOKEN, serverVars, storeVars, processVars, browserVars>>

\* The streams (res objects) and the values a sessionId can take.
SessionIds == 1..MaxSessions

\* `session_${Date.now()}_${Math.random().toString(36).substring(7)}` when the
\* clock and the random suffix of a stream-open never repeat an earlier pair.
DistinctIds == {opened + 1}
\* The same expression when an earlier pair can come again: nothing in the
\* code compares the new id with the ids already issued.
RepeatableIds == 1..(opened + 1)

\* (mutant) the comparison alone, without the fallback for an unset secret.
authenticateStrict(cred) == providedToken(cred) = AUTH_TOKEN

\* if (!AUTH_TOKEN) next(); else if (providedToken === AUTH_TOKEN) next()
authenticate(cred) == AUTH_TOKEN = NoToken \/ providedToken(cred) = AUTH_TOKEN

\* Map.set: a new key is appended to the iteration order; an existing key
\* keeps its place and gets the new value.
MapSet(conns, sid, res) ==
  IF \E k \in 1..Len(conns) : conns[k].sessionId = sid
    THEN [k \in 1..Len(conns) |->
            IF conns[k].sessionId = sid
              THEN [sessionId |-> sid, res |-> res] ELSE conns[k]]
    ELSE Append(conns, [sessionId |-> sid, res |-> res])

\* (mutant) removal by position, splice(indexOf(sid), 1): an absent key
\* gives position -1, which removes the last entry.
MapDeleteSplice(conns, sid) ==
  IF \E k \in 1..Len(conns) : conns[k].sessionId = sid
    THEN SelectSeq(conns, LAMBDA e : e.sessionId # sid)
    ELSE SubSeq(conns, 1, Len(conns) - 1)

\* Map.delete: removes the key if present, a no-op otherwise.
MapDelete(conns, sid) == SelectSeq(conns, LAMBDA e : e.sessionId # sid)

ServerInit ==
  /\ activeConnections = <<>>
  /\ opened = 0
  /\ sessionId = [s \in SessionIds |-> 0]
  /\ writable = [s \in SessionIds |-> FALSE]
  /\ heartbeat = {}
  /\ frames = [s \in SessionIds |-> <<>>]
  /\ pending = <<>>
  /\ http = <<>>
  /\ trigger = <<>>
  /\ submitted = 0
  /\ pings = 0

\* The session manager before any of its functions has been called.
StoreIdle ==
  /\ now = StartTime
  /\ ticks = 0
  /\ jar = <<>>
  /\ file = NoFile
  /\ savedAt = 0
  /\ applied = <<>>
  /\ restored = "never"
  /\ saveResult = "none"

\* The process before the app.listen callback has run.
ProcessIdle ==
  /\ startup = "launch"
  /\ shutdown = "idle"
  /\ browserInstance = "null"
  /\ autoSave = FALSE
  /\ calls = <<>>
  /\ invoked = 0
  /\ page = 0
  /\ done = <<>>

\* The browser module before getBrowser has been called.
BrowserIdle ==
  /\ callers = <<>>
  /\ launches = 0
  /\ instance = 0

Init ==
  /\ AUTH_TOKEN \in AuthTokenValues
  /\ ServerInit
  /\ StoreIdle
  /\ ProcessIdle
  /\ BrowserIdle

\* A turn of the server leaves the configuration and the session manager alone.
ServerTurn ==
  UNCHANGED <<AUTH_TOKEN, now, ticks, jar, file, savedAt, applied, restored, saveResult,
              processVars, browserVars>>
\* A call of the session manager leaves the server alone.
StoreCall ==
  UNCHANGED <<AUTH_TOKEN, activeConnections, opened, sessionId, writable, heartbeat,
              frames, pending, http, trigger, submitted, pings, processVars,
              browserVars>>

\* A turn that is not a turn of the message handler completes no exchange.
NoExchange == http' = <<>> /\ UNCHANGED <<pending, submitted>>
\* A turn that runs no teardown trigger.
NoTrigger == trigger' = <<>>

\* One completed exchange: the endpoint, the token presented, the body
\* submitted, the connection the handler had selected (0: none), what the
\* awaited tool call did, the answer.
Exchange(path, token, msg, conn, outcome, answer) ==
  [path |-> path, token |-> token, msg |-> msg, conn |-> conn,
   outcome |-> outcome, answer |-> answer]

\* authenticate answers 401 itself; the handler of the route never runs.
Reject(path, cred) ==
  /\ http' = <<Exchange(path, providedToken(cred), NoBody, 0, "none", Unauthorized)>>
  /\ NoTrigger
  /\ ServerTurn
  /\ UNCHANGED <<activeConnections, opened, sessionId, writable, heartbeat,
                 frames, pending, submitted, pings>>

(***************************************************************************)
(* app.get('/health'): no middleware, answers 200.                         *)
(***************************************************************************)
Health(cred) ==
  /\ http' = <<Exchange("/health", providedToken(cred), NoBody, 0, "none", HealthOk)>>
  /\ NoTrigger
  /\ ServerTurn
  /\ UNCHANGED <<activeConnections, opened, sessionId, writable, heartbeat,
                 frames, pending, submitted, pings>>

(***************************************************************************)
(* app.get('/sse'): register the session, write the two opening frames,    *)
(* start the heartbeat.                                                    *)
(***************************************************************************)
OpenStream(sid, cred) ==
  \/ /\ authenticate(cred)
     /\ opened < MaxSessions
     /\ LET res == opened + 1 IN
          /\ opened' = res
          /\ sessionId' = [sessionId EXCEPT ![res] = sid]
          /\ activeConnections' = MapSet(activeConnections, sid, res)
          /\ writable' = [writable EXCEPT ![res] = TRUE]
          /\ frames' = [frames EXCEPT ![res] = OpeningFrames]
          /\ heartbeat' = heartbeat \cup {res}
     /\ NoExchange
     /\ NoTrigger
     /\ ServerTurn
     /\ UNCHANGED pings
  \/ /\ ~authenticate(cred)
     /\ Reject("/sse", cred)

\* The counterparty goes away or the socket fails: the stream stops being
\* writable; the close and error events are delivered in later turns.
StreamBreaks(res) ==
  /\ res <= opened
  /\ writable[res]
  /\ writable' = [writable EXCEPT ![res] = FALSE]
  /\ NoExchange
  /\ NoTrigger
  /\ ServerTurn
  /\ UNCHANGED <<activeConnections, opened, sessionId, heartbeat, frames, pings>>

\* A teardown trigger of a stream, and whether its session was registered
\* when it ran.
Trigger(kind, res) ==
  [kind |-> kind, res |-> res,
   registered |-> \E k \in 1..Len(activeConnections) :
                    activeConnections[k].sessionId = sessionId[res]]

\* The body shared by the three listeners: clearInterval, activeConnections.delete.
Teardown(kind, res) ==
  /\ heartbeat' = heartbeat \ {res}
  /\ activeConnections' = MapDelete(activeConnections, sessionId[res])
  /\ trigger' = <<Trigger(kind, res)>>
  /\ NoExchange
  /\ ServerTurn
  /\ UNCHANGED <<opened, sessionId, writable, frames, pings>>

\* req.on('close')
ReqClose(res) == res <= opened /\ ~writable[res] /\ Teardown("req close", res)
\* res.on('close')
ResClose(res) == res <= opened /\ ~writable[res] /\ Teardown("res close", res)
\* res.on('error')
ResError(res) == res <= opened /\ ~writable[res] /\ Teardown("res error", res)

\* (mutant) the callback of the first version: a stream that cannot be
\* written stops the timer and leaves the session registered.
HeartbeatTickKeeps(res) ==
  /\ res \in heartbeat
  /\ IF writable[res]
       THEN /\ pings < MaxPings
            /\ frames' = [frames EXCEPT ![res] = Append(@, PingFrame)]
            /\ pings' = pings + 1
            /\ NoTrigger
            /\ UNCHANGED <<activeConnections, heartbeat>>
       ELSE /\ heartbeat' = heartbeat \ {res}
            /\ trigger' = <<Trigger("heartbeat", res)>>
            /\ UNCHANGED <<activeConnections, frames, pings>>
  /\ NoExchange
  /\ ServerTurn
  /\ UNCHANGED <<opened, sessionId, writable>>

\* (mutant) a timer whose callback waits for the tool functions in flight.
HeartbeatTickBlocked(res) ==
  /\ pending = <<>>
  /\ res \in heartbeat
  /\ IF writable[res]
       THEN /\ pings < MaxPings
            /\ frames' = [frames EXCEPT ![res] = Append(@, PingFrame)]
            /\ pings' = pings + 1
            /\ NoTrigger
            /\ UNCHANGED <<activeConnections, heartbeat>>
       ELSE /\ heartbeat' = heartbeat \ {res}
            /\ activeConnections' = MapDelete(activeConnections, sessionId[res])
            /\ trigger' = <<Trigger("heartbeat", res)>>
            /\ UNCHANGED <<frames, pings>>
  /\ NoExchange
  /\ ServerTurn
  /\ UNCHANGED <<opened, sessionId, writable>>

\* One tick of the setInterval callback of a stream.
HeartbeatTick(res) ==
  /\ res \in heartbeat
  /\ IF writable[res]
       THEN /\ pings < MaxPings
            /\ frames' = [frames EXCEPT ![res] = Append(@, PingFrame)]
            /\ pings' = pings + 1
            /\ NoTrigger
            /\ UNCHANGED <<activeConnections, heartbeat>>
       ELSE /\ heartbeat' = heartbeat \ {res}
            /\ activeConnections' = MapDelete(activeConnections, sessionId[res])
            /\ trigger' = <<Trigger("heartbeat", res)>>
            /\ UNCHANGED <<frames, pings>>
  /\ NoExchange
  /\ ServerTurn
  /\ UNCHANGED <<opened, sessionId, writable>>

(***************************************************************************)
(* app.post('/message').                                                   *)
(***************************************************************************)
\* The gate at which the handler's first turn ends, in the order of the code:
\* validation, connection lookup, notification test, routing.
Gate(msg, conn) ==
  IF ~ValidRequest(msg) THEN "invalid"
  ELSE IF conn = 0 THEN "noconn"
  ELSE IF isNotification(msg) THEN "notification"
  ELSE Branch(msg)

\* (mutant) a request that finds no session is acknowledged and dropped.
GateAnswerDrops(gate, msg) ==
  CASE gate = "invalid" -> HttpError(400, -32600, "Invalid Request", JNull)
    [] gate = "throw" -> HttpError(500, -32603, "Internal error", IdOrNull(msg))
    [] gate \in {"noconn", "notification"} -> Accepted
    [] OTHER -> NoHttp

\* (mutant) a dispatch that raises is logged and left unanswered.
GateAnswerSilentThrow(gate, msg) ==
  CASE gate = "invalid" -> HttpError(400, -32600, "Invalid Request", JNull)
    [] gate = "noconn" -> HttpError(503, -32000, "No active connection", IdOrNull(msg))
    [] gate = "notification" -> Accepted
    [] OTHER -> NoHttp

\* The synchronous answer of a turn that ends at a gate before delivery.
GateAnswer(gate, msg) ==
  CASE gate = "invalid" -> HttpError(400, -32600, "Invalid Request", JNull)
    [] gate = "noconn" -> HttpError(503, -32000, "No active connection", IdOrNull(msg))
    [] gate = "notification" -> Accepted
    [] gate = "throw" -> HttpError(500, -32603, "Internal error", IdOrNull(msg))
    [] OTHER -> NoHttp

\* (mutant) every delivery is acknowledged.
DeliverAnswerAccepts(isWritable, msg) == Accepted

\* if (!connection.res.writable) 503 else sendSSEMessage(...); 202
DeliverAnswer(isWritable, msg) ==
  IF isWritable THEN Accepted
  ELSE HttpError(503, -32000, "SSE connection closed", IdOrNull(msg))

\* (mutant) the response is written without the writable test.
DeliverFramesAlways(conn, response) ==
  [frames EXCEPT ![conn] = sendSSEMessage(@, response)]

\* The frames after that statement: the response is written only on a
\* writable stream.
DeliverFrames(conn, response) ==
  IF writable[conn]
    THEN [frames EXCEPT ![conn] = sendSSEMessage(@, response)]
    ELSE frames

\* The first turn of the handler for one submitted body: it ends with the
\* answer, or suspended at the await of a tool function.
Submit(msg, token) ==
  /\ LET conn == SelectConnection(activeConnections)
         gate == Gate(msg, conn)
     IN  /\ pending' = IF gate = "await"
                         THEN Append(pending, [msg |-> msg, conn |-> conn, token |-> token])
                         ELSE pending
         /\ http' = CASE gate = "await" -> <<>>
                      [] gate = "sync" ->
                           <<Exchange("/message", token, msg, conn, "none",
                                      DeliverAnswer(writable[conn], msg))>>
                      [] gate = "invalid" ->
                           <<Exchange("/message", token, msg, 0, "none", GateAnswer(gate, msg))>>
                      [] OTHER ->
                           <<Exchange("/message", token, msg, conn, "none", GateAnswer(gate, msg))>>
         /\ frames' = IF gate = "sync"
                        THEN DeliverFrames(conn, SyncResponse(msg))
                        ELSE frames
  /\ NoTrigger
  /\ ServerTurn
  /\ UNCHANGED <<activeConnections, opened, sessionId, writable, heartbeat, pings>>

PostMessage(msg, cred) ==
  \/ /\ authenticate(cred)
     /\ submitted < MaxRequests
     /\ submitted' = submitted + 1
     /\ Submit(msg, providedToken(cred))
  \/ /\ ~authenticate(cred)
     /\ Reject("/message", cred)

\* (mutant) the connection is looked up again when the handler resumes.
DeliveryTargetReselected(r) ==
  IF activeConnections = <<>> THEN r.conn ELSE SelectConnection(activeConnections)

\* `connection` in the handler's second turn: the const bound before dispatch.
DeliveryTarget(r) == r.conn

\* (mutant) a delivery that finds the stream unwritable unregisters its session.
DriverReturnTearsDown(i, outcome) ==
  /\ i \in 1..Len(pending)
  /\ LET r == pending[i]
         conn == DeliveryTarget(r)
     IN
       /\ frames' = DeliverFrames(conn, ToolResponse(r.msg, outcome))
       /\ http' = <<Exchange("/message", r.token, r.msg, conn, outcome,
                             DeliverAnswer(writable[conn], r.msg))>>
       /\ pending' = SubSeq(pending, 1, i - 1) \o SubSeq(pending, i + 1, Len(pending))
       /\ activeConnections' = IF writable[conn] THEN activeConnections
                                ELSE MapDelete(activeConnections, sessionId[conn])
  /\ NoTrigger
  /\ ServerTurn
  /\ UNCHANGED <<opened, sessionId, writable, heartbeat, submitted, pings>>

\* The awaited tool function settles: the handler resumes, builds the
\* response and delivers it on the connection it selected in its first turn.
DriverReturn(i, outcome) ==
  /\ i \in 1..Len(pending)
  /\ LET r == pending[i]
         conn == DeliveryTarget(r)
     IN
       /\ frames' = DeliverFrames(conn, ToolResponse(r.msg, outcome))
       /\ http' = <<Exchange("/message", r.token, r.msg, conn, outcome,
                             DeliverAnswer(writable[conn], r.msg))>>
       /\ pending' = SubSeq(pending, 1, i - 1) \o SubSeq(pending, i + 1, Len(pending))
  /\ NoTrigger
  /\ ServerTurn
  /\ UNCHANGED <<activeConnections, opened, sessionId, writable, heartbeat,
                 submitted, pings>>

\* The submissions: every body with the good credential, and two bodies (one
\* answered at once, one that starts a tool function) with every credential.
ProbeMessages ==
  {Message("tools/list", TRUE, JNum(1), FALSE, NoName),
   Message("tools/call", TRUE, JNum(1), TRUE, "check_login")}
Submissions ==
  (Messages \X {GoodCredential}) \cup (ProbeMessages \X Credentials)

\* The turns of the server when every stream-open draws a new session id.
Next ==
  \/ \E cred \in Credentials : Health(cred)
  \/ \E sid \in DistinctIds, cred \in Credentials : OpenStream(sid, cred)
  \/ \E res \in SessionIds : StreamBreaks(res)
  \/ \E res \in SessionIds : ReqClose(res)
  \/ \E res \in SessionIds : ResClose(res)
  \/ \E res \in SessionIds : ResError(res)
  \/ \E res \in SessionIds : HeartbeatTick(res)
  \/ \E sub \in Submissions : PostMessage(sub[1], sub[2])
  \/ \E i \in 1..MaxRequests, outcome \in Outcomes : DriverReturn(i, outcome)

Spec == Init /\ [][Next]_vars

\* The turns of the server when a stream-open can draw a session id issued before.
NextRepeatableIds ==
  \/ \E cred \in Credentials : Health(cred)
  \/ \E sid \in RepeatableIds, cred \in Credentials : OpenStream(sid, cred)
  \/ \E res \in SessionIds : StreamBreaks(res)
  \/ \E res \in SessionIds : ReqClose(res)
  \/ \E res \in SessionIds : ResClose(res)
  \/ \E res \in SessionIds : ResError(res)
  \/ \E res \in SessionIds : HeartbeatTick(res)
  \/ \E sub \in Submissions : PostMessage(sub[1], sub[2])
  \/ \E i \in 1..MaxRequests, outcome \in Outcomes : DriverReturn(i, outcome)

SpecRepeatableIds == Init /\ [][NextRepeatableIds]_vars

\* The server when every awaited tool function eventually settles.
SpecSettling ==
  /\ Init
  /\ [][Next]_vars
  /\ WF_vars(\E i \in 1..MaxRequests, outcome \in Outcomes : DriverReturn(i, outcome))

(***************************************************************************)
(* The session manager on its own: the page holds some cookies; the clock  *)
(* advances; saveAmazonSession and restoreAmazonSession are called in any  *)
(* order.                                                                  *)
(***************************************************************************)
\* The sequences of distinct cookies a page can hold.
RECURSIVE JarsOfLength(_)
JarsOfLength(n) ==
  IF n = 0 THEN {<<>>}
  ELSE {Append(j, c) : j \in JarsOfLength(n - 1), c \in CookieValues}
Distinct(seq) == \A i, k \in 1..Len(seq) : i # k => seq[i] # seq[k]
Jars == {j \in UNION {JarsOfLength(n) : n \in 0..MaxCookies} : Distinct(j)}

StoreInit ==
  /\ AUTH_TOKEN = NoToken
  /\ ServerInit
  /\ now = StartTime
  /\ ticks = 0
  /\ jar \in Jars
  /\ file = NoFile
  /\ savedAt = 0
  /\ applied = <<>>
  /\ restored = "never"
  /\ saveResult = "none"
  /\ ProcessIdle
  /\ BrowserIdle

\* Time passes: a second, or a second short of a year.
Tick(seconds) ==
  /\ ticks < MaxTicks
  /\ ticks' = ticks + 1
  /\ now' = now + seconds
  /\ saveResult' = "none"
  /\ StoreCall
  /\ UNCHANGED <<jar, file, savedAt, applied, restored>>

\* Something other than saveAmazonSession writes COOKIES_FILE.
EditFile(shape) ==
  /\ file' = ForeignFile(shape)
  /\ saveResult' = "none"
  /\ StoreCall
  /\ UNCHANGED <<now, ticks, jar, savedAt, applied, restored>>

\* (mutant) saveAmazonSession without its try/catch.
saveAmazonSessionUncaught(outcome) ==
  /\ IF outcome = "ok"
       THEN /\ file' = WrittenFile(Stringify(persistentCookies(jar, now)))
            /\ savedAt' = now
            /\ saveResult' = "returned"
       ELSE /\ file' = IF outcome = "write cut" THEN CutFile ELSE file
            /\ saveResult' = "raised"
            /\ UNCHANGED savedAt
  /\ UNCHANGED <<jar, applied, restored>>

\* (mutant) a save that writes a temporary file and renames it over
\* COOKIES_FILE: a write that fails leaves the file as it was.
saveAmazonSessionRename(outcome) ==
  /\ IF outcome = "ok"
       THEN /\ file' = WrittenFile(Stringify(persistentCookies(jar, now)))
            /\ savedAt' = now
       ELSE UNCHANGED <<file, savedAt>>
  /\ saveResult' = "returned"
  /\ UNCHANGED <<jar, applied, restored>>

\* saveAmazonSession, as its caller sees it: the body runs in a try whose
\* catch logs, so the call returns whatever happens. A failure of
\* page.cookies() or of opening the file leaves the file as it was; a
\* writeFileSync that fails after opening the file leaves a prefix.
saveAmazonSession(outcome) ==
  /\ IF outcome = "ok"
       THEN /\ file' = WrittenFile(Stringify(persistentCookies(jar, now)))
            /\ savedAt' = now
       ELSE /\ file' = IF outcome = "write cut" THEN CutFile ELSE file
            /\ UNCHANGED savedAt
  /\ saveResult' = "returned"
  /\ UNCHANGED <<jar, applied, restored>>

\* (mutant) restoreAmazonSession without its try/catch.
restoreAmazonSessionUncaught(outcome) ==
  /\ IF ~file.exists
       THEN applied' = <<>> /\ restored' = "false"
       ELSE IF ParseThrows(file) \/ FilterThrows(file)
              THEN applied' = <<>> /\ restored' = "raised"
              ELSE LET valid == validCookies(Parse(file.text), now) IN
                     IF valid = <<>>
                       THEN applied' = <<>> /\ restored' = "false"
                       ELSE IF outcome = "ok"
                              THEN applied' = valid /\ restored' = "true"
                              ELSE applied' = <<>> /\ restored' = "raised"
  /\ UNCHANGED <<jar, file, savedAt>>

\* restoreAmazonSession, as its caller sees it: false without a file, when
\* JSON.parse or cookies.filter throws, when every cookie of the file has
\* expired, and when page.setCookie fails; true after page.setCookie.
restoreAmazonSession(outcome) ==
  /\ IF ~file.exists
       THEN applied' = <<>> /\ restored' = "false"
       ELSE IF ParseThrows(file) \/ FilterThrows(file)
              THEN applied' = <<>> /\ restored' = "false"
              ELSE LET valid == validCookies(Parse(file.text), now) IN
                     IF valid = <<>>
                       THEN applied' = <<>> /\ restored' = "false"
                       ELSE IF outcome = "ok"
                              THEN applied' = valid /\ restored' = "true"
                              ELSE applied' = <<>> /\ restored' = "false"
  /\ UNCHANGED <<jar, file, savedAt>>

\* A call of saveAmazonSession on its own.
Save(outcome) ==
  /\ saveAmazonSession(outcome)
  /\ StoreCall
  /\ UNCHANGED <<now, ticks>>

\* A call of restoreAmazonSession on its own.
Restore(outcome) ==
  /\ restoreAmazonSession(outcome)
  /\ saveResult' = "none"
  /\ StoreCall
  /\ UNCHANGED <<now, ticks>>

StoreNext ==
  \/ \E seconds \in {1, OneYear - 1} : Tick(seconds)
  \/ \E shape \in ForeignShapes : EditFile(shape)
  \/ \E outcome \in SaveOutcomes : Save(outcome)
  \/ \E outcome \in Outcomes : Restore(outcome)

SpecStore == StoreInit /\ [][StoreNext]_vars

(***************************************************************************)
(* The process: the app.listen callback, the periodic save, the tool       *)
(* functions working on the one page of the browser, the SIGINT handler.   *)
(* One step is one turn of the event loop; a function suspended at an      *)
(* await resumes in a later turn.                                          *)
(***************************************************************************)
\* The tool functions of one behaviour, in the order they are started.
CallIds == 1..MaxCalls

\* params.asin and params.query of add_to_cart, by whether each is given.
Args(asin, query) == [asin |-> asin, query |-> query]
NoArgs == Args(FALSE, FALSE)

\* The tool functions the switch dispatches, with the arguments they read.
ToolCalls ==
  {[tool |-> t, args |-> NoArgs] :
     t \in {"search_amazon", "view_cart", "check_login", "save_session"}}
    \cup {[tool |-> "add_to_cart", args |-> Args(a, q)] : a \in BOOLEAN, q \in BOOLEAN}

\* (mutant) addToCart with a test for exactly one of asin and query first.
addToCartBranchExactlyOne(args) ==
  IF args.asin = args.query THEN "throw"
  ELSE IF args.asin THEN "asin" ELSE "query"

\* if (params.asin) {...} else if (params.query) {...} else { throw ... }
addToCartBranch(args) ==
  IF args.asin THEN "asin"
  ELSE IF args.query THEN "query"
  ELSE "throw"

\* getBrowser/getPage: a launch or reconnection that succeeds leaves a
\* connected browser; one that fails leaves browserInstance as it was.
getPage(outcome) == IF outcome = "ok" THEN "connected" ELSE browserInstance
\* closeBrowser: if (browserInstance) { close; browserInstance = null }
closeBrowser == "null"

\* What a tool function hands back: success of the OperationResult, whether
\* it had navigated, and the navigation the page showed when it extracted.
Done(call, success, navigated, saw) ==
  [id |-> call.id, tool |-> call.tool, args |-> call.args,
   success |-> success, navigated |-> navigated, saw |-> saw]

Remove(seq, i) == SubSeq(seq, 1, i - 1) \o SubSeq(seq, i + 1, Len(seq))

\* Until process.exit(0) the event loop runs turns.
Alive == shutdown # "exited"
\* A turn of the process leaves the HTTP side and the clock alone.
ProcessTurn == UNCHANGED <<AUTH_TOKEN, serverVars, now, ticks, browserVars>>
\* A turn that calls neither function of the session manager.
StoreUntouched ==
  /\ saveResult' = "none"
  /\ UNCHANGED <<jar, file, savedAt, applied, restored>>
\* What getPage and saveAmazonSession can do in one save: no page, or a page
\* and each outcome of the save.
SaveCalls == {<<"fails", "ok">>} \cup ({"ok"} \X SaveOutcomes)

\* const page = await getPage(); await saveAmazonSession(page);
SaveAttempt(pageOutcome, saveOutcome) ==
  /\ browserInstance' = getPage(pageOutcome)
  /\ IF pageOutcome = "ok"
       THEN saveAmazonSession(saveOutcome)
       ELSE /\ saveResult' = "no page"
            /\ UNCHANGED <<jar, file, savedAt, applied, restored>>

\* app.listen callback, first turn: await getBrowser(); await getPage().
StartBrowser(outcome) ==
  /\ Alive
  /\ startup = "launch"
  /\ browserInstance' = getPage(outcome)
  /\ startup' = IF outcome = "ok" THEN "restore" ELSE "failed"
  /\ done' = <<>>
  /\ StoreUntouched
  /\ ProcessTurn
  /\ UNCHANGED <<shutdown, autoSave, calls, invoked, page>>

\* const restored = await restoreAmazonSession(page); then page.goto begins.
StartRestore(outcome) ==
  /\ Alive
  /\ startup = "restore"
  /\ restoreAmazonSession(outcome)
  /\ saveResult' = "none"
  /\ startup' = "goto"
  /\ done' = <<>>
  /\ ProcessTurn
  /\ UNCHANGED <<shutdown, browserInstance, autoSave, calls, invoked, page>>

\* page.goto settles: the log lines and setInterval, or the outer catch.
StartGoto(outcome) ==
  /\ Alive
  /\ startup = "goto"
  /\ startup' = IF outcome = "ok" THEN "done" ELSE "failed"
  /\ autoSave' = (outcome = "ok")
  /\ done' = <<>>
  /\ StoreUntouched
  /\ ProcessTurn
  /\ UNCHANGED <<shutdown, browserInstance, calls, invoked, page>>

\* The callback of the five-minute timer.
AutoSave(pageOutcome, saveOutcome) ==
  /\ Alive
  /\ autoSave
  /\ SaveAttempt(pageOutcome, saveOutcome)
  /\ done' = <<>>
  /\ ProcessTurn
  /\ UNCHANGED <<startup, shutdown, autoSave, calls, invoked, page>>

\* The switch of tools/call starts a tool function, which awaits getPage().
Invoke(call) ==
  /\ Alive
  /\ invoked < MaxCalls
  /\ invoked' = invoked + 1
  /\ calls' = Append(calls, [id |-> invoked + 1, tool |-> call.tool,
                             args |-> call.args, pc |-> "getPage"])
  /\ done' = <<>>
  /\ StoreUntouched
  /\ ProcessTurn
  /\ UNCHANGED <<startup, shutdown, browserInstance, autoSave, page>>

\* getPage settles in searchProducts, addToCart, getCart or checkLoginStatus:
\* the function begins its navigation on the page, or returns a failure
\* from its catch (no page; addToCart without asin and query).
CallNavigate(i, outcome) ==
  /\ Alive
  /\ i \in 1..Len(calls)
  /\ calls[i].tool \in DriverTools
  /\ calls[i].pc = "getPage"
  /\ browserInstance' = getPage(outcome)
  /\ LET c == calls[i]
         branch == IF c.tool = "add_to_cart" THEN addToCartBranch(c.args) ELSE "goto"
     IN  IF outcome = "ok" /\ branch # "throw"
           THEN /\ calls' = [calls EXCEPT ![i].pc = "goto"]
                /\ page' = c.id
                /\ done' = <<>>
           ELSE /\ calls' = Remove(calls, i)
                /\ done' = <<Done(c, FALSE, FALSE, 0)>>
                /\ UNCHANGED page
  /\ StoreUntouched
  /\ ProcessTurn
  /\ UNCHANGED <<startup, shutdown, autoSave, invoked>>

\* The navigation settles: the function reads what the page shows and
\* returns, or returns a failure from its catch.
CallExtract(i, outcome) ==
  /\ Alive
  /\ i \in 1..Len(calls)
  /\ calls[i].pc = "goto"
  /\ calls' = Remove(calls, i)
  /\ done' = <<Done(calls[i], outcome = "ok", TRUE, page)>>
  /\ StoreUntouched
  /\ ProcessTurn
  /\ UNCHANGED <<startup, shutdown, browserInstance, autoSave, invoked, page>>

\* case 'save_session': a getPage that throws reaches the handler's catch.
CallSave(i, pageOutcome, saveOutcome) ==
  /\ Alive
  /\ i \in 1..Len(calls)
  /\ calls[i].tool = "save_session"
  /\ calls[i].pc = "getPage"
  /\ SaveAttempt(pageOutcome, saveOutcome)
  /\ calls' = Remove(calls, i)
  /\ done' = <<Done(calls[i], pageOutcome = "ok", FALSE, 0)>>
  /\ ProcessTurn
  /\ UNCHANGED <<startup, shutdown, autoSave, invoked, page>>

\* process.on('SIGINT'): the handler starts and awaits getPage().
Sigint ==
  /\ shutdown = "idle"
  /\ shutdown' = "save"
  /\ done' = <<>>
  /\ StoreUntouched
  /\ ProcessTurn
  /\ UNCHANGED <<startup, browserInstance, autoSave, calls, invoked, page>>

\* (mutant) the handler without its try/catch: a getPage that throws ends
\* the handler with the browser open.
ShutdownSaveUncaught(pageOutcome, saveOutcome) ==
  /\ shutdown = "save"
  /\ SaveAttempt(pageOutcome, saveOutcome)
  /\ shutdown' = IF pageOutcome = "ok" THEN "close" ELSE "crashed"
  /\ done' = <<>>
  /\ ProcessTurn
  /\ UNCHANGED <<startup, autoSave, calls, invoked, page>>

\* try { getPage; saveAmazonSession } catch { log }: then closeBrowser is called.
ShutdownSave(pageOutcome, saveOutcome) ==
  /\ shutdown = "save"
  /\ SaveAttempt(pageOutcome, saveOutcome)
  /\ shutdown' = "close"
  /\ done' = <<>>
  /\ ProcessTurn
  /\ UNCHANGED <<startup, autoSave, calls, invoked, page>>

\* await closeBrowser(); process.exit(0);
ShutdownClose ==
  /\ shutdown = "close"
  /\ browserInstance' = closeBrowser
  /\ shutdown' = "exited"
  /\ done' = <<>>
  /\ StoreUntouched
  /\ ProcessTurn
  /\ UNCHANGED <<startup, autoSave, calls, invoked, page>>

\* The cookies of the page in the process model: one session cookie.
ProcessJar == <<Cookie("session-id", ".amazon.com", Undefined)>>
\* COOKIES_FILE when the process starts: absent, or written by a save of
\* an earlier run.
StartFiles ==
  {NoFile, WrittenFile(Stringify(persistentCookies(ProcessJar, StartTime - 1)))}

ProcessInit ==
  /\ AUTH_TOKEN = NoToken
  /\ ServerInit
  /\ now = StartTime
  /\ ticks = 0
  /\ jar = ProcessJar
  /\ file \in StartFiles
  /\ savedAt = 0
  /\ applied = <<>>
  /\ restored = "never"
  /\ saveResult = "none"
  /\ ProcessIdle
  /\ BrowserIdle

ProcessNext ==
  \/ \E outcome \in Outcomes : StartBrowser(outcome)
  \/ \E outcome \in Outcomes : StartRestore(outcome)
  \/ \E outcome \in Outcomes : StartGoto(outcome)
  \/ \E sc \in SaveCalls : AutoSave(sc[1], sc[2])
  \/ \E call \in ToolCalls : Invoke(call)
  \/ \E i \in CallIds, outcome \in Outcomes : CallNavigate(i, outcome)
  \/ \E i \in CallIds, outcome \in Outcomes : CallExtract(i, outcome)
  \/ \E i \in CallIds, sc \in SaveCalls : CallSave(i, sc[1], sc[2])
  \/ Sigint
  \/ \E sc \in SaveCalls : ShutdownSave(sc[1], sc[2])
  \/ ShutdownClose

SpecProcess == ProcessInit /\ [][ProcessNext]_vars

(***************************************************************************)
(* The browser module: getBrowser called by the startup callback, the tool *)
(* functions, the periodic save and the SIGINT handler.  The test of       *)
(* browserInstance and the call of puppeteer.launch run in the caller's    *)
(* turn; the assignment to browserInstance runs when the launch settles.   *)
(***************************************************************************)
\* Who calls getBrowser, directly or through getPage.
CallerKinds == {"startup", "tool", "timer", "shutdown"}

\* A step of the browser module leaves everything else alone.
BrowserTurn ==
  UNCHANGED <<AUTH_TOKEN, serverVars, storeVars, startup, shutdown, autoSave,
              calls, invoked, page, done>>

\* (mutant) getBrowser keeping the promise of the launch in progress: a
\* caller that finds a launch in progress waits for that one.
EnterGetBrowserShared(who) ==
  /\ Len(callers) < MaxCallers
  /\ IF browserInstance = "connected"
       THEN /\ callers' = Append(callers, [who |-> who, pc |-> "done", got |-> instance])
            /\ UNCHANGED launches
       ELSE IF \E k \in 1..Len(callers) : callers[k].pc = "launching"
              THEN /\ callers' = Append(callers, [who |-> who, pc |-> "launching",
                                                  got |-> launches])
                   /\ UNCHANGED launches
              ELSE /\ callers' = Append(callers, [who |-> who, pc |-> "launching",
                                                  got |-> launches + 1])
                   /\ launches' = launches + 1
  /\ UNCHANGED <<browserInstance, instance>>
  /\ BrowserTurn

\* getBrowser is called: if (browserInstance && browserInstance.connected)
\* return browserInstance; otherwise puppeteer.launch is called and awaited.
EnterGetBrowser(who) ==
  /\ Len(callers) < MaxCallers
  /\ IF browserInstance = "connected"
       THEN /\ callers' = Append(callers, [who |-> who, pc |-> "done", got |-> instance])
            /\ UNCHANGED launches
       ELSE /\ callers' = Append(callers, [who |-> who, pc |-> "launching",
                                           got |-> launches + 1])
            /\ launches' = launches + 1
  /\ UNCHANGED <<browserInstance, instance>>
  /\ BrowserTurn

\* The launch settles: browserInstance = (the new browser); return it. A
\* launch that rejects leaves browserInstance as it was and the caller with
\* the error.
LaunchSettles(i, outcome) ==
  /\ i \in 1..Len(callers)
  /\ callers[i].pc = "launching"
  /\ IF outcome = "ok"
       THEN /\ callers' = [callers EXCEPT ![i].pc = "done"]
            /\ browserInstance' = "connected"
            /\ instance' = callers[i].got
       ELSE /\ callers' = [callers EXCEPT ![i].pc = "failed", ![i].got = 0]
            /\ UNCHANGED <<browserInstance, instance>>
  /\ UNCHANGED launches
  /\ BrowserTurn

\* The browser goes away (crash, window closed): connected becomes false.
Disconnected ==
  /\ browserInstance = "connected"
  /\ browserInstance' = "disconnected"
  /\ UNCHANGED <<callers, launches, instance>>
  /\ BrowserTurn

BrowserInit ==
  /\ AUTH_TOKEN = NoToken
  /\ ServerInit
  /\ StoreIdle
  /\ ProcessIdle
  /\ BrowserIdle

BrowserNext ==
  \/ \E who \in CallerKinds : EnterGetBrowser(who)
  \/ \E i \in 1..MaxCallers, outcome \in Outcomes : LaunchSettles(i, outcome)
  \/ Disconnected

SpecBrowser == BrowserInit /\ [][BrowserNext]_vars

(***************************************************************************)
(* Vocabulary of the properties.                                           *)
(***************************************************************************)
\* This turn is the first turn of a handler of POST /message ...
Arrived == submitted' = submitted + 1
\* ... for this body,
ArrivedMsg == IF http' # <<>> THEN http'[1].msg ELSE pending'[Len(pending')].msg
\* ... which is answered within the turn with this answer.
Answer == http'[1].answer
\* The turn starts a tool function (a driver operation).
DriverStarted == Len(pending') > Len(pending)

\* The session the code selects in the current state.
Selected == SelectConnection(activeConnections)
\* Every registered session is writable.
AllWritable == \A k \in 1..Len(activeConnections) : writable[activeConnections[k].res]

\* The turn writes exactly one frame on stream s, a message frame.
AppendedMessage(s) ==
  /\ Len(frames'[s]) = Len(frames[s]) + 1
  /\ SubSeq(frames'[s], 1, Len(frames[s])) = frames[s]
  /\ frames'[s][Len(frames'[s])].event = "message"
\* The envelope that frame carries.
Appended(s) == frames'[s][Len(frames'[s])].data
\* The turn writes on no stream but s.
OnlyOn(s) == \A t \in SessionIds : t # s => frames'[t] = frames[t]
\* The turn writes nothing.
NoFrame == frames' = frames

Range(seq) == {seq[k] : k \in 1..Len(seq)}
\* The session ids registered in a map.
Keys(conns) == {conns[k].sessionId : k \in 1..Len(conns)}
\* This turn ran a teardown trigger of stream res.
TriggerRan(res) == trigger' # <<>> /\ trigger'[1].res = res

(***************************************************************************)
(* C1.  With several sessions registered, all writable, the response to a  *)
(* request is written on the stream of the most recently opened session    *)
(* that is still registered, and on no other stream; once that session is  *)
(* gone the next most recent one receives the responses.                   *)
(***************************************************************************)
MostRecent(conns) == conns[Len(conns)].res

C1_DeliversToMostRecent ==
  [][(/\ Arrived
      /\ activeConnections # <<>>
      /\ AllWritable
      /\ http' # <<>>
      /\ Answer.status = 202
      /\ ArrivedMsg.hasId)
       => /\ AppendedMessage(MostRecent(activeConnections))
          /\ OnlyOn(MostRecent(activeConnections))]_vars

(***************************************************************************)
(* C2.  With no session registered, a request (method and id present) is   *)
(* answered within the turn with a 503 that carries a JSON-RPC error       *)
(* object; no tool function is started and no frame is written.            *)
(***************************************************************************)
C2_NoSession503 ==
  [][(/\ Arrived
      /\ activeConnections = <<>>
      /\ ArrivedMsg.hasMethod
      /\ ArrivedMsg.hasId)
       => /\ http' # <<>>
          /\ Answer.status = 503
          /\ Answer.code < 0
          /\ Answer.message # ""
          /\ ~DriverStarted
          /\ NoFrame]_vars

\* A request with method and id has just been answered 503 with no session registered.
C2_Witness ==
  /\ http # <<>>
  /\ activeConnections = <<>>
  /\ pending = <<>>
  /\ http[1].msg.hasMethod
  /\ http[1].msg.hasId
  /\ http[1].conn = 0
  /\ http[1].answer.status = 503

(***************************************************************************)
(* C3.  Once a session is found, a message with a method is treated as a   *)
(* notification (acknowledged 202, nothing written, nothing started)       *)
(* exactly when it has no id key.  A message with id 0 is a request: with  *)
(* the selected stream writable it gets one message frame carrying id 0.   *)
(* A message without id key gets no frame.                                 *)
(***************************************************************************)
\* The turn does what the code does for a notification, and nothing else.
AcknowledgedOnly ==
  /\ http' # <<>>
  /\ Answer = Accepted
  /\ NoFrame
  /\ ~DriverStarted

C3_NotificationIffNoId ==
  [][(Arrived /\ ArrivedMsg.hasMethod)
       => /\ activeConnections # <<>> => (AcknowledgedOnly <=> ~ArrivedMsg.hasId)
          /\ ~ArrivedMsg.hasId => NoFrame /\ ~DriverStarted
          /\ (/\ ArrivedMsg.hasId
              /\ ArrivedMsg.id = JNum(0)
              /\ activeConnections # <<>>
              /\ writable[Selected]
              /\ Branch(ArrivedMsg) = "sync")
               => /\ AppendedMessage(Selected)
                  /\ Appended(Selected).id = JNum(0)
                  /\ Answer = Accepted]_vars

\* A request with id 0 has just been answered 202 and a frame with id 0 is on a stream.
C3_Witness ==
  /\ http # <<>>
  /\ http[1].msg.hasId
  /\ http[1].msg.id = JNum(0)
  /\ http[1].answer.status = 202
  /\ \E f \in Range(frames[http[1].conn]) : f.event = "message" /\ f.data.id = JNum(0)

(***************************************************************************)
(* C4.  A message with a method and no id key is acknowledged with 202     *)
(* whether or not a session is registered, and writes no frame: the        *)
(* notification test comes before the session lookup.                      *)
(***************************************************************************)
C4_NotificationAlways202 ==
  [][(Arrived /\ ArrivedMsg.hasMethod /\ ~ArrivedMsg.hasId)
       => /\ http' # <<>>
          /\ Answer.status = 202
          /\ NoFrame]_vars

(***************************************************************************)
(* C5.  A tools/call request that names a tool the registry does not hold, *)
(* handled while the selected stream is writable, gets a message frame     *)
(* with a result and no error member, whose payload says success false.    *)
(***************************************************************************)
C5_UnknownToolIsResult ==
  [][(/\ Arrived
      /\ ArrivedMsg.hasMethod
      /\ ArrivedMsg.method = "tools/call"
      /\ ArrivedMsg.hasId
      /\ ArrivedMsg.hasParams
      /\ ArrivedMsg.name \notin KnownTools
      /\ activeConnections # <<>>
      /\ writable[Selected])
       => /\ Answer.status = 202
          /\ AppendedMessage(Selected)
          /\ Appended(Selected).members = {"result"}
          /\ Appended(Selected).result.kind = "content"
          /\ ~Appended(Selected).result.payload.success]_vars

(***************************************************************************)
(* C6.  A body without a method is answered 400 with error code -32600 in  *)
(* the same turn, whatever the set of registered sessions: no tool         *)
(* function is started, no frame is written, the set is unchanged.         *)
(***************************************************************************)
C6_MissingMethodRejected ==
  [][(Arrived /\ ~ArrivedMsg.hasMethod)
       => /\ http' # <<>>
          /\ Answer.status = 400
          /\ Answer.code = -32600
          /\ ~DriverStarted
          /\ NoFrame
          /\ activeConnections' = activeConnections]_vars

\* A body without method has just been answered 400 while a writable session is registered.
C6_Witness ==
  /\ http # <<>>
  /\ ~http[1].msg.hasMethod
  /\ http[1].answer.status = 400
  /\ http[1].answer.code = -32600
  /\ activeConnections # <<>>
  /\ writable[Selected]

(***************************************************************************)
(* C7.  Every message frame written on a stream is written by the turn     *)
(* that answers a request, carries the id of that request, and has exactly *)
(* one of the members result and error, for every routed method and every  *)
(* outcome of a tool call.                                                 *)
(***************************************************************************)
\* The envelope has the member and a value for it, or neither.
HasResult(e) == "result" \in e.members
HasError(e) == "error" \in e.members
WellFormedEnvelope(e) ==
  /\ HasResult(e) # HasError(e)
  /\ HasResult(e) <=> e.result # NoResult
  /\ HasError(e) <=> e.error # NoError

C7_EnvelopeIdAndOneMember ==
  [][\A s \in SessionIds :
       (frames'[s] # frames[s] /\ frames'[s][Len(frames'[s])].event = "message")
         => /\ AppendedMessage(s)
            /\ http' # <<>>
            /\ http'[1].msg.hasId
            /\ Appended(s).id = http'[1].msg.id
            /\ WellFormedEnvelope(Appended(s))]_vars

\* A failed tool call has just been answered and its envelope, with the
\* request's id, is the last frame of the selected stream.
C7_Witness ==
  /\ http # <<>>
  /\ http[1].outcome = "fails"
  /\ http[1].answer.status = 202
  /\ LET stream == frames[http[1].conn] IN
       /\ stream[Len(stream)].event = "message"
       /\ stream[Len(stream)].data.id = http[1].msg.id
       /\ WellFormedEnvelope(stream[Len(stream)].data)

(***************************************************************************)
(* C8.  A tool call that fails (the tool function, or getting the browser  *)
(* page for it) is answered, when the selected stream is still writable,   *)
(* with a message frame that has a result and no error member, and whose   *)
(* payload says success false; for each of the five tools.                 *)
(***************************************************************************)
C8_ToolFailureIsResult ==
  [][(/\ http' # <<>>
      /\ http'[1].outcome = "fails"
      /\ writable[http'[1].conn])
       => /\ Answer.status = 202
          /\ AppendedMessage(http'[1].conn)
          /\ Appended(http'[1].conn).members = {"result"}
          /\ Appended(http'[1].conn).result.kind = "content"
          /\ ~Appended(http'[1].conn).result.payload.success]_vars

(***************************************************************************)
(* C9.  Each built-in method, submitted as a request while the selected    *)
(* stream is writable, gets a frame with a result: initialize the          *)
(* descriptor, ping an empty object, resources/list and prompts/list an    *)
(* empty list, tools/list the registry; none gets an error member.         *)
(***************************************************************************)
BuiltIn == {"initialize", "ping", "resources/list", "prompts/list", "tools/list"}

C9_BuiltInsAnswered ==
  [][(/\ Arrived
      /\ ArrivedMsg.hasMethod
      /\ ArrivedMsg.method \in BuiltIn
      /\ ArrivedMsg.hasId
      /\ activeConnections # <<>>
      /\ writable[Selected])
       => /\ Answer.status = 202
          /\ AppendedMessage(Selected)
          /\ Appended(Selected).members = {"result"}
          /\ ArrivedMsg.method = "initialize"
               => Appended(Selected).result.kind = "descriptor"
          /\ ArrivedMsg.method = "ping"
               => Appended(Selected).result.kind = "empty"
          /\ ArrivedMsg.method \in {"resources/list", "prompts/list"}
               => Appended(Selected).result.kind = "emptyList"
          /\ ArrivedMsg.method = "tools/list"
               => Appended(Selected).result.tools = ToolsList]_vars

(***************************************************************************)
(* C10.  A tools/list request with id 1, handled while the selected stream *)
(* is writable, is acknowledged with 202 and writes exactly one frame, a   *)
(* message frame on that stream, with id 1 and a result whose tools name   *)
(* search_amazon, add_to_cart, view_cart and check_login; the stream       *)
(* already carries its endpoint frame.                                     *)
(***************************************************************************)
C10_ToolsListEndToEnd ==
  [][(/\ Arrived
      /\ ArrivedMsg.hasMethod
      /\ ArrivedMsg.method = "tools/list"
      /\ ArrivedMsg.hasId
      /\ ArrivedMsg.id = JNum(1)
      /\ activeConnections # <<>>
      /\ writable[Selected])
       => /\ http' # <<>>
          /\ Answer = Accepted
          /\ AppendedMessage(Selected)
          /\ OnlyOn(Selected)
          /\ Appended(Selected).id = JNum(1)
          /\ Appended(Selected).members = {"result"}
          /\ DriverTools \subseteq Range(Appended(Selected).result.tools)
          /\ \E f \in Range(frames[Selected]) : f.event = "endpoint"]_vars

\* tools/list with id 1 has just been answered 202; the selected stream
\* carries connected, endpoint and then the message frame with the tools.
C10_Witness ==
  /\ http # <<>>
  /\ http[1].msg.method = "tools/list"
  /\ http[1].msg.id = JNum(1)
  /\ http[1].answer.status = 202
  /\ LET stream == frames[http[1].conn] IN
       /\ Len(stream) = 3
       /\ stream[2].event = "endpoint"
       /\ stream[3].event = "message"
       /\ stream[3].data.id = JNum(1)
       /\ "check_login" \in Range(stream[3].data.result.tools)

(***************************************************************************)
(* C11.  With a secret configured, every request that presents another     *)
(* token, or none, is answered 401 on each of the three endpoints, and     *)
(* the turn changes neither the registered sessions nor any stream and     *)
(* starts no tool function.                                                *)
(***************************************************************************)
C11_MismatchRejectedEverywhere ==
  [][(/\ AUTH_TOKEN # NoToken
      /\ http' # <<>>
      /\ http'[1].token # AUTH_TOKEN)
       => /\ http'[1].answer.status = 401
          /\ activeConnections' = activeConnections
          /\ NoFrame
          /\ ~DriverStarted]_vars

(***************************************************************************)
(* C12.  With no secret configured, no exchange on any endpoint ends with  *)
(* 401, whatever token the request presents or omits.                      *)
(***************************************************************************)
C12_NoSecretNeverUnauthorized ==
  AUTH_TOKEN = NoToken => (http # <<>> => http[1].answer.status # 401)

\* With no secret configured, a body sent with a token that matches nothing
\* has been handled and its response delivered.
C12_Witness ==
  /\ AUTH_TOKEN = NoToken
  /\ http # <<>>
  /\ http[1].path = "/message"
  /\ http[1].token = "wrong"
  /\ http[1].answer.status = 202
  /\ frames[http[1].conn][Len(frames[http[1].conn])].event = "message"

(***************************************************************************)
(* C13.  Every teardown trigger of a stream (the three listeners, the      *)
(* heartbeat tick that finds the stream unwritable) leaves the stream's    *)
(* timer cancelled and its session unregistered, and touches nothing       *)
(* else: the other entries of the map keep their order and value, the      *)
(* other timers stay set, no stream is written.  A trigger that runs when  *)
(* the session is already unregistered changes neither the map nor the     *)
(* timers.                                                                 *)
(***************************************************************************)
C13_TeardownIdempotent ==
  [][\A res \in SessionIds :
       TriggerRan(res)
         => /\ res \notin heartbeat'
            /\ heartbeat' \ {res} = heartbeat \ {res}
            /\ sessionId[res] \notin Keys(activeConnections')
            /\ activeConnections' =
                 SelectSeq(activeConnections, LAMBDA e : e.sessionId # sessionId[res])
            /\ NoFrame
            /\ writable' = writable
            /\ ~trigger'[1].registered
                 => activeConnections' = activeConnections /\ heartbeat' = heartbeat]_vars

\* A trigger has just run for a session that an earlier trigger had already
\* removed, while another session is registered with its timer set.
C13_Witness ==
  /\ trigger # <<>>
  /\ ~trigger[1].registered
  /\ trigger[1].res \notin heartbeat
  /\ activeConnections # <<>>
  /\ \E res \in heartbeat : sessionId[res] \in Keys(activeConnections)

(***************************************************************************)
(* C14.  The id a stream-open registers differs from every id issued       *)
(* before; a session stays registered from its open to the first teardown  *)
(* trigger of its stream; an id that has been unregistered is never        *)
(* registered again.                                                       *)
(***************************************************************************)
\* The ids issued so far.
Issued == {sessionId[res] : res \in 1..opened}

C14_SessionIdsNeverReused ==
  [][/\ opened' # opened => sessionId'[opened'] \notin Issued
     /\ \A sid \in Issued :
          /\ (sid \in Keys(activeConnections) /\ sid \notin Keys(activeConnections'))
               => \E res \in 1..opened : sessionId[res] = sid /\ TriggerRan(res)
          /\ sid \notin Keys(activeConnections)
               => sid \notin Keys(activeConnections')]_vars

(***************************************************************************)
(* C15.  A stream carries frames exactly when it has been opened; its      *)
(* first frame is the connected comment, its second the endpoint frame,    *)
(* and every later frame is a heartbeat comment or a message frame.        *)
(***************************************************************************)
C15_OpeningFramesFirst ==
  \A res \in SessionIds :
    /\ res <= opened <=> frames[res] # <<>>
    /\ res <= opened
         => /\ Len(frames[res]) >= 2
            /\ frames[res][1] = ConnectedFrame
            /\ frames[res][2] = EndpointFrame
            /\ \A k \in 3..Len(frames[res]) :
                 frames[res][k] = PingFrame \/ frames[res][k].event = "message"

\* A stream that carries the two opening frames followed by a heartbeat
\* comment and a message frame.
C15_Witness ==
  \E res \in SessionIds :
    /\ Len(frames[res]) = 4
    /\ frames[res][1] = ConnectedFrame
    /\ frames[res][2] = EndpointFrame
    /\ \E k \in 3..4 : frames[res][k] = PingFrame
    /\ \E k \in 3..4 : frames[res][k].event = "message"

(***************************************************************************)
(* C16.  The heartbeat tick that finds its stream unwritable cancels the   *)
(* timer and unregisters the session within the tick, whether or not a     *)
(* close or error listener has run and without any request being handled.  *)
(***************************************************************************)
C16_HeartbeatTearsDown ==
  [][\A res \in SessionIds :
       (TriggerRan(res) /\ trigger'[1].kind = "heartbeat")
         => /\ ~writable[res]
            /\ res \in heartbeat
            /\ res \notin heartbeat'
            /\ sessionId[res] \notin Keys(activeConnections')
            /\ http' = <<>>]_vars

\* A tick has just removed a session that was still registered: no listener
\* had run for it.
C16_Witness ==
  /\ trigger # <<>>
  /\ trigger[1].kind = "heartbeat"
  /\ trigger[1].registered
  /\ ~writable[trigger[1].res]
  /\ trigger[1].res \notin heartbeat
  /\ sessionId[trigger[1].res] \notin Keys(activeConnections)

(***************************************************************************)
(* C17.  A delivery that finds the selected stream unwritable is answered  *)
(* (nothing is thrown past it) and unregisters the session, so that the    *)
(* next request does not select it.                                        *)
(***************************************************************************)
C17_FailedDeliveryTearsDown ==
  [][(/\ http' # <<>>
      /\ http'[1].path = "/message"
      /\ http'[1].conn # 0
      /\ http'[1].answer.message = "SSE connection closed")
       => /\ http'[1].answer.status = 503
          /\ NoFrame
          /\ sessionId[http'[1].conn] \notin Keys(activeConnections')
          /\ SelectConnection(activeConnections') # http'[1].conn]_vars

(***************************************************************************)
(* C18.  On every stream, a frame carries a JSON-RPC envelope exactly when *)
(* its event type is message; the connected comment, the heartbeat comment *)
(* and the endpoint frame have another type and carry no envelope.         *)
(***************************************************************************)
C18_MessageTypeMarksPayload ==
  /\ \A res \in SessionIds : \A k \in 1..Len(frames[res]) :
       frames[res][k].event = "message" <=> frames[res][k].data # NoEnvelope
  /\ \A f \in {ConnectedFrame, EndpointFrame, PingFrame} :
       f.event # "message" /\ f.data = NoEnvelope

\* A stream that carries a comment, an endpoint frame, a heartbeat and a
\* frame of type message with an error envelope.
C18_Witness ==
  \E res \in SessionIds :
    /\ PingFrame \in Range(frames[res])
    /\ EndpointFrame \in Range(frames[res])
    /\ \E f \in Range(frames[res]) : f.event = "message" /\ HasError(f.data)

(***************************************************************************)
(* C19.  After a save that wrote the file, every cookie of the file has a  *)
(* numeric expires later than the time of that save; a cookie that had no  *)
(* expiry (absent, zero, -1) has the time of the save plus one year.       *)
(***************************************************************************)
C19_PersistedExpiryInFuture ==
  file.shape = "array"
    => /\ \A k \in 1..Len(file.text) :
            /\ Parse(file.text)[k].expires.t = "num"
            /\ Parse(file.text)[k].expires.v > savedAt
       /\ \A c \in Range(jar) :
            (IncludesAmazon(c.domain) /\ ~HasExpires(c))
              => \E d \in Range(Parse(file.text)) :
                   d.name = c.name /\ d.expires = JNum(savedAt + OneYear)

(***************************************************************************)
(* C20.  A restore that applies cookies less than a year after the save     *)
(* that wrote the file applies every cookie of the site that was saved     *)
(* without expiry, with an expires greater than the current time, and      *)
(* applies no cookie whose expires was already past at the save.           *)
(***************************************************************************)
\* The cookie was given to page.setCookie by the restore of this step.
AppliedNow(c) == \E d \in Range(applied') : d.name = c.name /\ d.domain = c.domain

C20_ExpiryRoundTrip ==
  [][(/\ restoreAmazonSession("ok")
      /\ file.shape = "array"
      /\ now < savedAt + OneYear)
       => \A c \in Range(jar) :
            /\ (IncludesAmazon(c.domain) /\ ~HasExpires(c))
                 => /\ restored' = "true"
                    /\ \E d \in Range(applied') :
                         d.name = c.name /\ d.expires.t = "num" /\ d.expires.v > now
            /\ (HasExpires(c) /\ c.expires.v <= savedAt) => ~AppliedNow(c)]_vars

\* A restore, later than the save and within the year, has applied the
\* cookie saved without expiry and not the one saved with a past expires.
C20_Witness ==
  /\ restored = "true"
  /\ savedAt < now
  /\ now < savedAt + OneYear
  /\ \E c \in Range(jar) :
       /\ c.expires = Undefined
       /\ \E d \in Range(applied) : d.name = c.name /\ d.expires.v > now
  /\ \E c \in Range(jar) :
       /\ c.expires = JNum(StartTime - 1)
       /\ \A d \in Range(applied) : d.name # c.name

(***************************************************************************)
(* C21.  A call of restoreAmazonSession returns true or false, never       *)
(* raises, and leaves the file as it was; without a file, with a file that *)
(* is not JSON or not an array, and with a file whose cookies have all     *)
(* expired, it returns false and gives no cookie to the page.              *)
(***************************************************************************)
\* The file holds at least one cookie that restoreAmazonSession would apply.
Restorable ==
  /\ file.shape = "array"
  /\ validCookies(Parse(file.text), now) # <<>>

C21_RestoreNeverRaises ==
  [][\A outcome \in Outcomes :
       Restore(outcome)
         => /\ restored' \in {"true", "false"}
            /\ file' = file
            /\ ~Restorable => (restored' = "false" /\ applied' = <<>>)]_vars

\* A restore has returned false, with nothing applied, on a file that was
\* saved and then replaced by something that is not a cookie array.
C21_Witness ==
  /\ restored = "false"
  /\ applied = <<>>
  /\ file.shape \in ForeignShapes
  /\ savedAt # 0

(***************************************************************************)
(* C22.  A call of saveAmazonSession returns to its caller whatever        *)
(* happens in it: when page.cookies() rejects and when the write fails,    *)
(* the call still returns, and no save is recorded.                        *)
(***************************************************************************)
C22_SaveNeverRaises ==
  [][\A outcome \in SaveOutcomes :
       Save(outcome)
         => /\ saveResult' = "returned"
            /\ outcome # "ok" => savedAt' = savedAt]_vars

\* A save whose write failed half way has returned.
C22_Witness ==
  /\ saveResult = "returned"
  /\ file = CutFile

(***************************************************************************)
(* C27.  No restore reads a file of which a save wrote only a part.        *)
(***************************************************************************)
C27_RestoreReadsWholeFile ==
  [][(\E outcome \in Outcomes : Restore(outcome)) => file.shape # "cut"]_vars

(***************************************************************************)
(* C28.  While a tool function is in flight, the heartbeat timer of every  *)
(* open, writable stream can fire, and no turn of the message handler      *)
(* (the one that starts the tool function, the one that resumes after it)  *)
(* clears a heartbeat timer.                                               *)
(***************************************************************************)
C28_HeartbeatWhilePending ==
  /\ [](\A res \in SessionIds :
          (pending # <<>> /\ res \in heartbeat /\ writable[res] /\ pings < MaxPings)
            => ENABLED HeartbeatTick(res))
  /\ [][(pending' # pending \/ http' # <<>>) => heartbeat' = heartbeat]_vars

\* A heartbeat frame is on a writable stream whose timer is still set while
\* a tool function is in flight.
C28_Witness ==
  /\ pending # <<>>
  /\ \E res \in heartbeat : writable[res] /\ PingFrame \in Range(frames[res])

(***************************************************************************)
(* C29.  A turn that answers 503 writes no frame and leaves no handler of  *)
(* that request suspended; a message frame is written only in the turn     *)
(* that answers 202 to the request whose id it carries, so no later turn   *)
(* (a stream opening, a heartbeat, another request) writes the response    *)
(* of a request answered 503.                                              *)
(***************************************************************************)
C29_NoReplayAfter503 ==
  [][/\ (http' # <<>> /\ http'[1].answer.status = 503)
          => /\ NoFrame
             /\ Len(pending') <= Len(pending)
             /\ \A k \in 1..Len(pending') : pending'[k] \in Range(pending)
     /\ \A s \in SessionIds :
          frames'[s] # frames[s]
            => \/ frames'[s] = OpeningFrames
               \/ frames'[s] = Append(frames[s], PingFrame)
               \/ /\ AppendedMessage(s)
                  /\ http' # <<>>
                  /\ http'[1].answer = Accepted
                  /\ Appended(s).id = http'[1].msg.id]_vars

\* A request has just been answered 503 because the selected stream is not
\* writable, while another stream is open and writable; no stream carries
\* a message frame.
C29_Witness ==
  /\ http # <<>>
  /\ http[1].answer.status = 503
  /\ http[1].conn # 0
  /\ \E res \in SessionIds : writable[res] /\ res \in heartbeat
  /\ \A res \in SessionIds : \A f \in Range(frames[res]) : f.event # "message"

(***************************************************************************)
(* C30.  A body with a method and an id key is answered 202 exactly when   *)
(* the same turn writes one message frame carrying its id, on one stream   *)
(* and on no other; answered 400, 500 or 503, the turn writes nothing.     *)
(***************************************************************************)
C30_AcceptedIffOneFrame ==
  [][(/\ http' # <<>>
      /\ http'[1].path = "/message"
      /\ http'[1].msg.hasMethod
      /\ http'[1].msg.hasId)
       => /\ http'[1].answer.status \in {202, 500, 503}
          /\ IF http'[1].answer.status = 202
               THEN \E s \in SessionIds :
                      /\ AppendedMessage(s)
                      /\ Appended(s).id = http'[1].msg.id
                      /\ OnlyOn(s)
               ELSE NoFrame]_vars

\* With two streams open and writable, a request has been answered 202 and
\* one of the streams carries one message frame, with its id, the other none.
C30_Witness ==
  /\ http # <<>>
  /\ http[1].answer = Accepted
  /\ http[1].msg.hasId
  /\ opened = 2
  /\ \A res \in SessionIds : writable[res]
  /\ \E s \in SessionIds :
       /\ Cardinality({k \in 1..Len(frames[s]) :
                         /\ frames[s][k].event = "message"
                         /\ frames[s][k].data.id = http[1].msg.id}) = 1
       /\ \A t \in SessionIds \ {s} : \A f \in Range(frames[t]) : f.event # "message"

(***************************************************************************)
(* C23.  A tool function that navigated the page and then read it read the *)
(* page of its own navigation: no other tool function navigated the shared *)
(* page between the two steps.                                             *)
(***************************************************************************)
C23_CallsSerialized ==
  [][(done' # <<>> /\ done'[1].navigated) => done'[1].saw = done'[1].id]_vars

(***************************************************************************)
(* C24.  A save is attempted by the startup callback after the restore, by *)
(* the turn in which search_amazon, add_to_cart, view_cart or check_login  *)
(* returns, by every tick of the periodic timer and by the SIGINT handler  *)
(* before it closes the browser.                                           *)
(***************************************************************************)
\* This turn called saveAmazonSession, or tried to and found no page.
SaveAttempted == saveResult' # "none"

C24_SavedAtEveryPoint ==
  [][/\ (startup = "goto" /\ startup' = "done") => SaveAttempted
     /\ (done' # <<>> /\ done'[1].tool \in DriverTools) => SaveAttempted
     /\ (\E sc \in SaveCalls : AutoSave(sc[1], sc[2])) => SaveAttempted
     /\ (shutdown = "save" /\ shutdown' = "close") => SaveAttempted]_vars

(***************************************************************************)
(* C25.  After SIGINT the handler attempts a save while the browser is     *)
(* still as it was, and whatever getPage and the save do, it goes on to    *)
(* close the browser and exit: the process exits only from there, with     *)
(* browserInstance null.                                                   *)
(***************************************************************************)
C25_ShutdownSavesThenCloses ==
  /\ [][/\ shutdown = "save" /\ shutdown' # "save"
            => /\ shutdown' = "close"
               /\ SaveAttempted
               /\ browserInstance' # closeBrowser \/ browserInstance = closeBrowser
        /\ shutdown' = "exited" /\ shutdown # "exited"
            => /\ shutdown = "close"
               /\ browserInstance' = closeBrowser]_vars
  /\ [](shutdown = "save" => \A sc \in SaveCalls : ENABLED ShutdownSave(sc[1], sc[2]))
  /\ [](shutdown = "close" => ENABLED ShutdownClose)

\* The process has exited with the browser closed after a shutdown whose
\* save did not write the file.
C25_Witness ==
  /\ shutdown = "exited"
  /\ browserInstance = closeBrowser
  /\ startup = "done"
  /\ file = NoFile

(***************************************************************************)
(* C26.  An addToCart that was given neither or both of asin and query     *)
(* returns success false without having navigated; one that was given      *)
(* exactly one navigates unless it has no page.                            *)
(***************************************************************************)
C26_ExactlyOneOfAsinAndQuery ==
  [][(done' # <<>> /\ done'[1].tool = "add_to_cart")
       => IF done'[1].args.asin # done'[1].args.query
            THEN done'[1].navigated \/ ~done'[1].success
            ELSE ~done'[1].success /\ ~done'[1].navigated]_vars

(***************************************************************************)
(* C31.  The map of sessions changes only in a turn that opens a stream or *)
(* runs a teardown trigger: every turn of the message handler, whatever    *)
(* its answer, and every heartbeat tick that writes a frame leave it as it *)
(* was.                                                                    *)
(***************************************************************************)
\* A turn of the handler of POST /message: its first turn or its resumption.
MessageTurn == Arrived \/ Len(pending') < Len(pending)

C31_ActiveSetFrame ==
  [][/\ MessageTurn => activeConnections' = activeConnections
     /\ pings' # pings => activeConnections' = activeConnections
     /\ activeConnections' # activeConnections
          => opened' = opened + 1 \/ trigger' # <<>>]_vars

\* A resumed handler has just answered 503 on a stream that is not writable,
\* and the session of that stream is still registered.
C31_Witness ==
  /\ http # <<>>
  /\ http[1].outcome # "none"
  /\ http[1].answer.status = 503
  /\ ~writable[http[1].conn]
  /\ sessionId[http[1].conn] \in Keys(activeConnections)

(***************************************************************************)
(* C32.  A tools/call with params and an id starts a tool function exactly *)
(* when its name is one of those the tools/list result carries; the        *)
(* ListTools and CallTool handlers registered on mcpServer list and        *)
(* dispatch the same names.                                                *)
(***************************************************************************)
C32_OneCatalog ==
  [][(/\ Arrived
      /\ ArrivedMsg.hasMethod
      /\ ArrivedMsg.method = "tools/call"
      /\ ArrivedMsg.hasId
      /\ ArrivedMsg.hasParams
      /\ activeConnections # <<>>)
       => /\ DriverStarted <=> ArrivedMsg.name \in Range(ToolsListResult.tools)
          /\ SdkDispatched(ArrivedMsg.name) <=> DriverStarted
          /\ Range(SdkToolsList) = Range(ToolsListResult.tools)]_vars

\* A tools/call of the last tool of the list is in flight.
C32_Witness ==
  /\ pending # <<>>
  /\ pending[1].msg.name = ToolsList[Len(ToolsList)]
  /\ pending[1].msg.name = SdkToolsList[Len(SdkToolsList)]

(***************************************************************************)
(* C33.  A body whose id key is present with the value null is handled as  *)
(* a request, for every method: it is never just acknowledged; with the    *)
(* selected stream writable, a method answered at once writes the response *)
(* of that method with id null and is answered 202, and a tools/call       *)
(* starts its tool function and, when that returns, does the same.         *)
(***************************************************************************)
C33_NullIdIsRequest ==
  [][/\ (/\ Arrived
          /\ ArrivedMsg.hasMethod
          /\ ArrivedMsg.hasId
          /\ ArrivedMsg.id = JNull
          /\ activeConnections # <<>>)
           => /\ ~AcknowledgedOnly
              /\ (writable[Selected] /\ Branch(ArrivedMsg) = "sync")
                   => /\ AppendedMessage(Selected)
                      /\ Appended(Selected) = SyncResponse(ArrivedMsg)
                      /\ Appended(Selected).id = JNull
                      /\ Answer = Accepted
              /\ Branch(ArrivedMsg) = "await" => DriverStarted
     /\ (/\ Len(pending') < Len(pending)
          /\ http'[1].msg.id = JNull
          /\ writable[http'[1].conn])
           => /\ AppendedMessage(http'[1].conn)
              /\ Appended(http'[1].conn).id = JNull
              /\ Answer = Accepted]_vars

\* A tools/call with id null has been answered 202 after its tool function
\* returned, and its stream carries a message frame with id null.
C33_Witness ==
  /\ http # <<>>
  /\ http[1].msg.method = "tools/call"
  /\ http[1].msg.hasId
  /\ http[1].msg.id = JNull
  /\ http[1].outcome # "none"
  /\ http[1].answer = Accepted
  /\ \E f \in Range(frames[http[1].conn]) : f.event = "message" /\ f.data.id = JNull

(***************************************************************************)
(* C34.  Every turn that writes on a stream writes on one that is writable *)
(* in that turn: a stream that was open before the turn was writable when  *)
(* the turn began, and the stream is writable when the turn ends.          *)
(***************************************************************************)
C34_WritesOnlyOnWritable ==
  [][\A s \in SessionIds :
       frames'[s] # frames[s]
         => /\ writable'[s]
            /\ s <= opened => writable[s]]_vars

\* A stream broke while a tool function was in flight: the resumed handler
\* answered 503 and the stream carries its opening frames only, while a
\* heartbeat frame has been written on another, writable stream.
C34_Witness ==
  /\ http # <<>>
  /\ http[1].outcome # "none"
  /\ http[1].conn # 0
  /\ ~writable[http[1].conn]
  /\ frames[http[1].conn] = OpeningFrames
  /\ \E t \in SessionIds : writable[t] /\ PingFrame \in Range(frames[t])

(***************************************************************************)
(* C35.  A body with a method and an id is answered 503 only in a state    *)
(* in which no registered session has a writable stream; answered in its   *)
(* first turn while some registered session is writable, a request that    *)
(* raises nothing is answered 202 with its response written.               *)
(***************************************************************************)
\* Some registered session has a writable stream.
SomeWritable == \E k \in 1..Len(activeConnections) : writable[activeConnections[k].res]

C35_WritableSessionIsServed ==
  [][(/\ http' # <<>>
      /\ http'[1].path = "/message"
      /\ http'[1].msg.hasMethod
      /\ http'[1].msg.hasId)
       => /\ http'[1].answer.status = 503 => ~SomeWritable
          /\ (SomeWritable /\ http'[1].answer.status # 500)
               => /\ http'[1].answer = Accepted
                  /\ \E s \in SessionIds : AppendedMessage(s)]_vars

C37_ErrorCarriesRequestId ==
  [][(/\ http' # <<>>
      /\ http'[1].path = "/message"
      /\ http'[1].answer.status \in {500, 503})
       => http'[1].answer.id = IF http'[1].msg.hasId THEN http'[1].msg.id ELSE JNull]_vars

(***************************************************************************)
(* C38.  Every body that passes authentication is answered once: its first *)
(* turn either answers it (400, 202, 503 or 500) or suspends its handler   *)
(* at a tool function, never both; a handler that resumes answers (202 or  *)
(* 503) and is gone; no other turn answers on the message endpoint; and,   *)
(* tool functions settling, no handler stays suspended for ever.           *)
(***************************************************************************)
C38_AnsweredExactlyOnce ==
  /\ [][/\ Arrived
            => \/ /\ http' # <<>>
                  /\ Answer.status \in {400, 202, 503, 500}
                  /\ pending' = pending
               \/ /\ http' = <<>>
                  /\ Len(pending') = Len(pending) + 1
        /\ Len(pending') < Len(pending)
            => /\ Len(pending') = Len(pending) - 1
               /\ http' # <<>>
               /\ Answer.status \in {202, 503}
        /\ (/\ http' # <<>>
            /\ http'[1].path = "/message"
            /\ Answer.status # 401)
            => Arrived \/ Len(pending') < Len(pending)]_vars
  /\ [](pending # <<>> => <>(pending = <<>>))

\* A tools/call without params has been answered 500 and nothing is in flight.
C38_Witness ==
  /\ http # <<>>
  /\ http[1].msg.method = "tools/call"
  /\ ~http[1].msg.hasParams
  /\ http[1].answer.status = 500
  /\ pending = <<>>

(***************************************************************************)
(* C40.  A save changes the file only after the restore of the startup     *)
(* callback has run.                                                       *)
(***************************************************************************)
C40_NoSaveBeforeRestore ==
  [][(file' # file /\ saveResult' = "returned") => restored # "never"]_vars

(***************************************************************************)
(* C39.  At most one call of puppeteer.launch is in progress at any time:  *)
(* the callers that found no connected browser and are waiting for one all *)
(* wait for the same browser.                                              *)
(***************************************************************************)
\* The callers at a given position.
At(pc) == {k \in 1..Len(callers) : callers[k].pc = pc}

C39_SingleLaunch == Cardinality({callers[k].got : k \in At("launching")}) <= 1

====
